---- MODULE Spec2Model ----
(***************************************************************************)
(* Streamline-visualization-tool: the VectorField (dense 3D array of       *)
(* 3-vectors, axis flips, zero mask) and the StreamlineTracer (slice-grid  *)
(* seeding, RK4 stepping, direction traces, the OpenMP batch).             *)
(*                                                                         *)
(* Number representation.  The program computes in IEEE float.  The model  *)
(* computes exactly, in fixed point: a coordinate is an integer number of  *)
(* units, Unit units to the voxel.  Unit is chosen so that step/2 and      *)
(* step/6 of every modelled stepSize are whole units.  Field samples are   *)
(* small integers.  Float rounding error is not modelled.                  *)
(***************************************************************************)
EXTENDS Integers, Sequences, FiniteSets, Bags, TLC

VARIABLES
    \* VectorField (include/VectorField.h)
    dimX, dimY, dimZ,       \* short dimX, dimY, dimZ
    data,                   \* float* data: 3 components per voxel, index 0..3N-1
    flipX, flipY, flipZ,    \* public bool flags
    zeroMask,               \* bool* zeroMask: index 0..N-1
    \* StreamlineTracer (include/StreamlineTracer.h)
    stepSize,               \* float stepSize, in units
    maxSteps,               \* int maxSteps
    minMagnitude,           \* float minMagnitude, in field-sample units
    maxLength,              \* float maxLength, in length units (LengthOf)
    maxAngle,               \* float maxAngle, as the angle's cosine (CosOf)
    \* one traceStreamline call in progress: its locals and its position
    trace,
    \* one traceAllStreamlines call in progress: the shared locals of the
    \* call, and each OpenMP thread's position and localStreamlines
    batch,
    worker,
    \* the caller's last call on the field / tracer and what it returned
    ret,                    \* record: op, args, result
    reads,                  \* data indices the last call read
    maskReads,              \* zeroMask indices the last call read
    \* the application (Source.cpp): its globals, the VectorField objects
    \* alive, and the handler the UI thread is in
    app

fieldVars == <<dimX, dimY, dimZ, data, flipX, flipY, flipZ, zeroMask>>
callVars  == <<ret, reads, maskReads>>
cfgVars   == <<stepSize, maxSteps, minMagnitude, maxLength, maxAngle>>
batchVars == <<batch, worker>>

-----------------------------------------------------------------------------
(* Fixed point *)

\* rk4Integrate divides the step by 6 (and by 2): the smallest position
\* increment is stepSize/6.
RK4Weight == 6

\* Units per voxel: stepSize = 0.5 voxel (Source.cpp's default) is RK4Weight units.
Unit == 2 * RK4Weight

ZeroVec == <<0, 0, 0>>

-----------------------------------------------------------------------------
(* VectorField *)

NumVoxels == dimX * dimY * dimZ

Voxels == (0 .. dimX - 1) \X (0 .. dimY - 1) \X (0 .. dimZ - 1)

\* int index = 3 * (z + dimZ * (y + dimY * x));
DataIndexXFastest(x, y, z) == 3 * (x + dimX * (y + dimY * z))
DataIndex(x, y, z) == 3 * (z + dimZ * (y + dimY * x))

\* if (x < 0 || x >= dimX || y < 0 || y >= dimY || z < 0 || z >= dimZ)
OutOfRange(x, y, z) ==
    x < 0 \/ x >= dimX \/ y < 0 \/ y >= dimY \/ z < 0 \/ z >= dimZ

\* flip ? -1.0f * data[i] : data[i]
Flipped(flag, value) == IF flag THEN (0 - 1) * value ELSE value

\* A bug VectorField::getVector could have: an out-of-range index clamped to
\* the nearest voxel instead of answered with the zero vector.
Clamp(lo, v, hi) == IF v < lo THEN lo ELSE IF v > hi THEN hi ELSE v
GetVectorClamping(x, y, z) ==
    LET index == DataIndex(Clamp(0, x, dimX - 1), Clamp(0, y, dimY - 1),
                           Clamp(0, z, dimZ - 1))
    IN  <<Flipped(flipX, data[index]),
          Flipped(flipY, data[index + 1]),
          Flipped(flipZ, data[index + 2])>>

\* VectorField::getVector: the triple (vx, vy, vz) it stores in its outputs
GetVector(x, y, z) ==
    IF OutOfRange(x, y, z)
    THEN ZeroVec
    ELSE LET index == DataIndex(x, y, z)
         IN  <<Flipped(flipX, data[index]),
               Flipped(flipY, data[index + 1]),
               Flipped(flipZ, data[index + 2])>>

\* VectorField::getVector: the indices of data it reads
GetVectorReads(x, y, z) ==
    IF OutOfRange(x, y, z)
    THEN {}
    ELSE LET index == DataIndex(x, y, z)
         IN  {index, index + 1, index + 2}

\* VectorField::isInBounds, on fixed-point coordinates:
\* x >= 0.0f && x <= dimX-1.0f && ...
IsInBoundsStrict(px, py, pz) ==
    /\ px >= 0 /\ px < (dimX - 1) * Unit
    /\ py >= 0 /\ py < (dimY - 1) * Unit
    /\ pz >= 0 /\ pz < (dimZ - 1) * Unit
IsInBounds(px, py, pz) ==
    /\ px >= 0 /\ px <= (dimX - 1) * Unit
    /\ py >= 0 /\ py <= (dimY - 1) * Unit
    /\ pz >= 0 /\ pz <= (dimZ - 1) * Unit

\* calculateZeroMask: index = x + y * dimX + z * dimX * dimY;
MaskIndex(x, y, z) == x + y * dimX + z * dimX * dimY

\* calculateZeroMask: vx == 0.0f && vy == 0.0f && vz == 0.0f
IsZeroVectorAny(v) == v[1] = 0 \/ v[2] = 0 \/ v[3] = 0
IsZeroVector(v) == v[1] = 0 /\ v[2] = 0 /\ v[3] = 0

\* The voxels in the order of calculateZeroMask's three nested loops
\* (x outermost, z innermost).
VoxelAt(k) == <<k \div (dimY * dimZ), (k \div dimZ) % dimY, k % dimZ>>
VoxelOrder == [k \in 1 .. NumVoxels |-> VoxelAt(k - 1)]

\* calculateZeroMask's loop, from the freshly allocated array `mask`
RECURSIVE MaskLoop(_, _)
MaskLoop(mask, vs) ==
    IF vs = <<>>
    THEN mask
    ELSE LET v == Head(vs)
             index == MaskIndex(v[1], v[2], v[3])
         IN  MaskLoop([mask EXCEPT ![index] = ~IsZeroVector(GetVector(v[1], v[2], v[3]))],
                      Tail(vs))

CalculateZeroMask(fresh) == MaskLoop(fresh, VoxelOrder)

-----------------------------------------------------------------------------
(* StreamlineTracer: slice-grid seeding *)

\* A voxel position as a Point3D (fixed point)
VoxelPoint(x, y, z) == <<x * Unit, y * Unit, z * Unit>>

\* generateSliceGridSeeds: this->zeroMask[x + y * dimX + slice * dimX * dimZ]
SliceMaskIndex(x, y, slice) == x + y * dimX + slice * dimX * dimZ

\* if (slice < 0 || slice >= dimZ)
SliceOutOfBoundsLoose(slice) == slice < 0 \/ slice > dimZ
SliceOutOfBounds(slice) == slice < 0 \/ slice >= dimZ

\* The plane positions in the order of generateSliceGridSeeds' two loops
\* (x outer, y inner).
PlaneOrder == [k \in 1 .. dimX * dimY |-> <<(k - 1) \div dimY, (k - 1) % dimY>>]

\* A read of the mask array at index i.  The array holds NumVoxels entries; a
\* read past its end is undefined behaviour: it yields whatever the memory
\* there holds, here TRUE exactly for the indices in oobTrue.
MaskRead(i, oobTrue) ==
    IF i \in 0 .. NumVoxels - 1 THEN zeroMask[i] ELSE i \in oobTrue

\* The mask indices generateSliceGridSeeds(seedDensity, slice) reads
SliceMaskReads(fieldPresent, slice) ==
    IF ~fieldPresent \/ SliceOutOfBounds(slice)
    THEN {}
    ELSE {SliceMaskIndex(p[1], p[2], slice) : p \in (0 .. dimX - 1) \X (0 .. dimY - 1)}

\* StreamlineTracer::generateSliceGridSeeds(seedDensity, slice): the seeds it
\* returns.  seedDensity is unused by the code.
GenerateSliceGridSeeds(fieldPresent, slice, oobTrue) ==
    IF ~fieldPresent
    THEN <<>>
    ELSE IF SliceOutOfBounds(slice)
    THEN <<>>
    ELSE LET hit(p) == MaskRead(SliceMaskIndex(p[1], p[2], slice), oobTrue)
             kept == SelectSeq(PlaneOrder, hit)
         IN  [k \in 1 .. Len(kept) |-> VoxelPoint(kept[k][1], kept[k][2], slice)]

-----------------------------------------------------------------------------
(* VectorField::interpolateVector *)

\* const bool SIMPLE_INTERPOLATION = true;  (VectorField.h)
SIMPLE_INTERPOLATION == TRUE

\* std::roundf on a fixed-point coordinate: the nearest integer, halves away
\* from zero.
Roundf(p) ==
    IF p >= 0
    THEN (2 * p + Unit) \div (2 * Unit)
    ELSE 0 - ((2 * (0 - p) + Unit) \div (2 * Unit))

\* interpolateVector at the point pos.  Every VectorField of this program has
\* SIMPLE_INTERPOLATION = true, the nearest-sample branch.
InterpolateVector(pos) ==
    IF ~IsInBounds(pos[1], pos[2], pos[3])
    THEN ZeroVec
    ELSE GetVector(Roundf(pos[1]), Roundf(pos[2]), Roundf(pos[3]))

VecAdd(v, u) == <<v[1] + u[1], v[2] + u[2], v[3] + u[3]>>

Scaled(c, v) == <<c * v[1], c * v[2], c * v[3]>>

\* std::min and std::max on ints
Min(a, b) == IF a < b THEN a ELSE b
Max(a, b) == IF a > b THEN a ELSE b

\* Interpolated vectors below are exact: multiples of 1 / WeightDen, the
\* product of three weights of Unit parts each.
WeightDen == Unit * Unit * Unit

\* static_cast<int>(x) of an in-bounds (non-negative) coordinate
TruncToInt(p) == p \div Unit

\* x0 = max(0, min(x0, dimX-2));  x1 = min(x0 + 1, dimX-1)
BaseIndex(p, dim) == Max(0, Min(TruncToInt(p), dim - 2))
UpperIndex(i0, dim) == Min(i0 + 1, dim - 1)

\* wx = x - x0, clamped to [0, 1]; in Unit parts
WeightFractional(p, i0) == p % Unit
Weight(p, i0) == Max(0, Min(Unit, p - i0 * Unit))

\* The trilinear branch of interpolateVector: the weighted sum of the 8
\* surrounding samples, times WeightDen.
Trilinear(pos) ==
    LET x0 == BaseIndex(pos[1], dimX)
        y0 == BaseIndex(pos[2], dimY)
        z0 == BaseIndex(pos[3], dimZ)
        x1 == UpperIndex(x0, dimX)
        y1 == UpperIndex(y0, dimY)
        z1 == UpperIndex(z0, dimZ)
        wx == Weight(pos[1], x0)
        wy == Weight(pos[2], y0)
        wz == Weight(pos[3], z0)
        term(a, b, c) ==
            Scaled((IF a = 1 THEN wx ELSE Unit - wx)
                       * (IF b = 1 THEN wy ELSE Unit - wy)
                       * (IF c = 1 THEN wz ELSE Unit - wz),
                   GetVector(IF a = 1 THEN x1 ELSE x0,
                             IF b = 1 THEN y1 ELSE y0,
                             IF c = 1 THEN z1 ELSE z0))
    IN  VecAdd(VecAdd(VecAdd(term(0, 0, 0), term(0, 0, 1)),
                      VecAdd(term(0, 1, 0), term(0, 1, 1))),
               VecAdd(VecAdd(term(1, 0, 0), term(1, 0, 1)),
                      VecAdd(term(1, 1, 0), term(1, 1, 1))))

\* interpolateVector with SIMPLE_INTERPOLATION = simple, times WeightDen
InterpolateVectorIn(simple, pos) ==
    IF ~IsInBounds(pos[1], pos[2], pos[3])
    THEN ZeroVec
    ELSE IF simple
    THEN Scaled(WeightDen, GetVector(Roundf(pos[1]), Roundf(pos[2]), Roundf(pos[3])))
    ELSE Trilinear(pos)

-----------------------------------------------------------------------------
(* StreamlineTracer: vectors *)

Dot(v, u) == v[1] * u[1] + v[2] * u[2] + v[3] * u[3]

VecDiff(v, u) == <<v[1] - u[1], v[2] - u[2], v[3] - u[3]>>

\* The largest r with r * r <= n
RECURSIVE SqrtSearch(_, _, _)
SqrtSearch(n, lo, hi) ==
    IF lo >= hi
    THEN lo
    ELSE LET mid == (lo + hi + 1) \div 2
         IN  IF mid * mid <= n
             THEN SqrtSearch(n, mid, hi)
             ELSE SqrtSearch(n, lo, mid - 1)

ISqrt(n) == SqrtSearch(n, 0, n)

\* rk4Integrate's normalisation of a field sample: magnitude = sqrt(v.v);
\* if (magnitude > 0) v /= magnitude.  The samples of the traced fields are
\* axis-aligned, so the magnitude is a whole number and the quotient exact.
NormalizeSample(v) ==
    LET mag == ISqrt(Dot(v, v))
    IN  IF mag > 0
        THEN <<v[1] \div mag, v[2] \div mag, v[3] \div mag>>
        ELSE v

\* The length sqrt(d.d) of a displacement d given in units, in length units:
\* Unit length units to the unit, rounded down.
LengthOf(d) == ISqrt(Dot(d, d) * Unit * Unit)

\* One voxel, in length units
VoxelLength == Unit * Unit

\* cos(maxAngle) is kept as its sign and its square num/den.
CosOf(neg, num, den) == [neg |-> neg, num |-> num, den |-> den]

\* dot(normalize(a), normalize(b)) > cosf(maxAngle), where normalize leaves
\* a zero vector zero.  Exact: with c = cos(maxAngle), |a||b| > 0 and
\* d = a.b, the test d / (|a||b|) > c is decided on the squares.
DotExceedsCos(a, b) ==
    LET d == Dot(a, b)
        nn == Dot(a, a) * Dot(b, b)
    IN  IF nn = 0
        THEN maxAngle.neg /\ maxAngle.num > 0
        ELSE IF maxAngle.neg
        THEN d >= 0 \/ d * d * maxAngle.den < maxAngle.num * nn
        ELSE d > 0 /\ d * d * maxAngle.den > maxAngle.num * nn

-----------------------------------------------------------------------------
(* StreamlineTracer: integration *)

\* StreamlineTracer::rk4Integrate(pos, step)
Rk4IntegrateUnweighted(pos, step) ==
    LET k1 == NormalizeSample(InterpolateVector(pos))
        k2 == NormalizeSample(InterpolateVector(VecAdd(pos, Scaled(step \div 2, k1))))
        k3 == NormalizeSample(InterpolateVector(VecAdd(pos, Scaled(step \div 2, k2))))
        k4 == NormalizeSample(InterpolateVector(VecAdd(pos, Scaled(step, k3))))
        sum == VecAdd(VecAdd(k1, k2), VecAdd(k3, k4))
    IN  VecAdd(pos, Scaled(step \div RK4Weight, sum))
Rk4Integrate(pos, step) ==
    LET k1 == NormalizeSample(InterpolateVector(pos))
        k2 == NormalizeSample(InterpolateVector(VecAdd(pos, Scaled(step \div 2, k1))))
        k3 == NormalizeSample(InterpolateVector(VecAdd(pos, Scaled(step \div 2, k2))))
        k4 == NormalizeSample(InterpolateVector(VecAdd(pos, Scaled(step, k3))))
        sum == VecAdd(VecAdd(k1, Scaled(2, k2)), VecAdd(Scaled(2, k3), k4))
    IN  VecAdd(pos, Scaled(step \div RK4Weight, sum))

\* Point3D(): x(0), y(0), z(0)
DefaultPoint == <<0, 0, 0>>

\* The locals of traceStreamlineDirection(seed, direction) on entry
EnterDirection(seed, direction) ==
    [seed |-> seed, direction |-> direction, path |-> <<>>,
     currentPos |-> seed, totalLength |-> 0, step |-> 0, why |-> "running"]

Exit(t, why) == [t EXCEPT !.why = why]

\* One pass through traceStreamlineDirection's for statement, from its
\* condition to its increment: the locals afterwards.  why names the exit
\* taken, "running" when the loop goes on.
LoopPassUncapped(t) ==
    IF FALSE
    THEN Exit(t, "cap")
    ELSE
    LET v == InterpolateVector(t.currentPos)
    IN  IF Dot(v, v) < minMagnitude * minMagnitude
        THEN Exit(t, "magnitude")
        ELSE
    LET nextPos == Rk4Integrate(t.currentPos, t.direction * stepSize)
    IN  IF ~IsInBounds(nextPos[1], nextPos[2], nextPos[3])
        THEN Exit(t, "bounds")
        ELSE
    LET prevPos == IF t.path # <<>> THEN t.path[Len(t.path)] ELSE DefaultPoint
        prevVec == VecDiff(t.currentPos, prevPos)
        nextVec == VecDiff(nextPos, t.currentPos)
    IN  IF DotExceedsCos(prevVec, nextVec)
        THEN Exit(t, "angle")
        ELSE
    LET stepDist == LengthOf(nextVec)
        u == [t EXCEPT !.path = Append(t.path, nextPos),
                       !.currentPos = nextPos,
                       !.totalLength = t.totalLength + stepDist]
    IN  IF Len(u.path) > maxSteps
        THEN Exit(u, "size")
        ELSE [u EXCEPT !.step = t.step + 1]
LoopPassUnchecked(t) ==
    IF ~(t.step < maxSteps /\ t.totalLength < maxLength)
    THEN Exit(t, "cap")
    ELSE
    LET v == InterpolateVector(t.currentPos)
    IN  IF Dot(v, v) < minMagnitude * minMagnitude
        THEN Exit(t, "magnitude")
        ELSE
    LET nextPos == Rk4Integrate(t.currentPos, t.direction * stepSize)
    IN  IF FALSE
        THEN Exit(t, "bounds")
        ELSE
    LET prevPos == IF t.path # <<>> THEN t.path[Len(t.path)] ELSE DefaultPoint
        prevVec == VecDiff(t.currentPos, prevPos)
        nextVec == VecDiff(nextPos, t.currentPos)
    IN  IF DotExceedsCos(prevVec, nextVec)
        THEN Exit(t, "angle")
        ELSE
    LET stepDist == LengthOf(nextVec)
        u == [t EXCEPT !.path = Append(t.path, nextPos),
                       !.currentPos = nextPos,
                       !.totalLength = t.totalLength + stepDist]
    IN  IF Len(u.path) > maxSteps
        THEN Exit(u, "size")
        ELSE [u EXCEPT !.step = t.step + 1]
LoopPass(t) ==
    IF ~(t.step < maxSteps /\ t.totalLength < maxLength)
    THEN Exit(t, "cap")
    ELSE
    LET v == InterpolateVector(t.currentPos)
    IN  IF Dot(v, v) < minMagnitude * minMagnitude
        THEN Exit(t, "magnitude")
        ELSE
    LET nextPos == Rk4Integrate(t.currentPos, t.direction * stepSize)
    IN  IF ~IsInBounds(nextPos[1], nextPos[2], nextPos[3])
        THEN Exit(t, "bounds")
        ELSE
    LET prevPos == IF t.path # <<>> THEN t.path[Len(t.path)] ELSE DefaultPoint
        prevVec == VecDiff(t.currentPos, prevPos)
        nextVec == VecDiff(nextPos, t.currentPos)
    IN  IF DotExceedsCos(prevVec, nextVec)
        THEN Exit(t, "angle")
        ELSE
    LET stepDist == LengthOf(nextVec)
        u == [t EXCEPT !.path = Append(t.path, nextPos),
                       !.currentPos = nextPos,
                       !.totalLength = t.totalLength + stepDist]
    IN  IF Len(u.path) > maxSteps
        THEN Exit(u, "size")
        ELSE [u EXCEPT !.step = t.step + 1]

\* traceStreamlineDirection, run to its return: the locals at the return
RECURSIVE RunDirection(_)
RunDirection(t) == IF t.why # "running" THEN t ELSE RunDirection(LoopPass(t))

TraceStreamlineDirection(seed, direction) ==
    RunDirection(EnterDirection(seed, direction)).path

Reverse(seq) == [k \in 1 .. Len(seq) |-> seq[Len(seq) + 1 - k]]

\* traceStreamline's combination of the two paths
CombineUnreversed(backwardPath, seed, forwardPath) ==
    backwardPath \o <<seed>> \o forwardPath
Combine(backwardPath, seed, forwardPath) ==
    Reverse(backwardPath) \o <<seed>> \o forwardPath

\* StreamlineTracer::traceStreamline(seed)
TraceStreamline(seed) ==
    IF ~IsInBounds(seed[1], seed[2], seed[3])
    THEN <<>>
    ELSE Combine(TraceStreamlineDirection(seed, 0 - 1), seed,
                 TraceStreamlineDirection(seed, 1))

-----------------------------------------------------------------------------
(* Initial states: a constructed VectorField *)

\* Raw voxel vectors of the synthetic fields: the zero vector, a vector with
\* some zero components, a vector with none.
Palette == {<<0, 0, 0>>, <<0, 2, 0>>, <<1, -2, 3>>}

\* Grid sizes (dimX, dimY, dimZ)
FieldDimsVF == {<<2, 1, 2>>, <<1, 2, 2>>, <<3, 1, 1>>}
FieldDimsSeeds == {<<2, 1, 2>>, <<1, 3, 2>>, <<2, 2, 1>>}

\* The fields traced: a 3 x 2 x 1 grid of axis-aligned samples (zero, +x of
\* magnitude 1, +y of magnitude 2).
TraceDims == {<<3, 2, 1>>}
TracePalette == {<<0, 0, 0>>, <<1, 0, 0>>, <<0, 2, 0>>}

\* The fields of the batches: a row of 3 voxels, each zero or along the row
BatchDims == {<<3, 1, 1>>}
BatchPalette == {<<0, 0, 0>>, <<1, 0, 0>>}

\* new bool[NumVoxels]: the contents are indeterminate (here all false or all
\* true) until calculateZeroMask's loop has written them.
FreshArrays == {[i \in 0 .. NumVoxels - 1 |-> b] : b \in BOOLEAN}

\* VectorField::VectorField: data filled, flips at their defaults, zeroMask
\* computed by calculateZeroMask from a freshly allocated array.
InitField(dims, palette) ==
    /\ \E d \in dims : dimX = d[1] /\ dimY = d[2] /\ dimZ = d[3]
    /\ \E vox \in [0 .. NumVoxels - 1 -> palette] :
          data = [i \in 0 .. 3 * NumVoxels - 1 |-> vox[i \div 3][(i % 3) + 1]]
    /\ flipX = FALSE /\ flipY = FALSE /\ flipZ = FALSE
    /\ \E fresh \in FreshArrays : zeroMask = CalculateZeroMask(fresh)

NoCall == [op |-> "none"]

-----------------------------------------------------------------------------
(* Calls on the VectorField *)

\* A call is made when no earlier result is held; Forget drops the held
\* result.
Idle == ret = NoCall

Forget ==
    /\ ~Idle
    /\ ret' = NoCall /\ reads' = {} /\ maskReads' = {}
    /\ UNCHANGED <<app, fieldVars, cfgVars, trace, batchVars>>

\* The public flip flags are plain members any caller may set.
SetFlip ==
    /\ Idle
    /\ \E fx \in BOOLEAN, fy \in BOOLEAN, fz \in BOOLEAN :
          flipX' = fx /\ flipY' = fy /\ flipZ' = fz
    /\ UNCHANGED <<app, dimX, dimY, dimZ, data, zeroMask, callVars, cfgVars, trace, batchVars>>

GetVectorCall ==
    /\ Idle
    /\ \E x \in -1 .. dimX, y \in -1 .. dimY, z \in -1 .. dimZ :
          /\ ret' = [op |-> "getVector", args |-> <<x, y, z>>, val |-> GetVector(x, y, z)]
          /\ reads' = GetVectorReads(x, y, z)
    /\ maskReads' = {}
    /\ UNCHANGED <<app, fieldVars, cfgVars, trace, batchVars>>

\* Coordinates at and next to the two ends of an axis of `dim` voxels
EdgeCoords(dim) == {-1, 0, (dim - 1) * Unit, (dim - 1) * Unit + 1, dim * Unit}

IsInBoundsCall ==
    /\ Idle
    /\ \E px \in EdgeCoords(dimX), py \in EdgeCoords(dimY), pz \in EdgeCoords(dimZ) :
          ret' = [op |-> "isInBounds", args |-> <<px, py, pz>>,
                  val |-> IsInBounds(px, py, pz)]
    /\ reads' = {}
    /\ maskReads' = {}
    /\ UNCHANGED <<app, fieldVars, cfgVars, trace, batchVars>>

\* Coordinates of the interpolateVector calls: the voxel positions, the
\* points half way between them, and a point off either end
HalfPoints(dim) ==
    {k * RK4Weight : k \in 0 .. 2 * (dim - 1)} \cup {0 - 1, (dim - 1) * Unit + 1}

\* interpolateVector(x, y, z), in a VectorField whose SIMPLE_INTERPOLATION
\* is `simple`
InterpolateVectorCall ==
    /\ Idle
    /\ \E simple \in BOOLEAN,
          x \in HalfPoints(dimX), y \in HalfPoints(dimY), z \in HalfPoints(dimZ) :
          ret' = [op |-> "interpolateVector", args |-> <<x, y, z>>,
                  simple |-> simple,
                  val |-> InterpolateVectorIn(simple, <<x, y, z>>)]
    /\ reads' = {} /\ maskReads' = {}
    /\ UNCHANGED <<app, fieldVars, cfgVars, trace, batchVars>>

\* generateSliceGridSeeds(seedDensity, slice).  `axis` is the slicing axis the
\* caller has in mind (Source.cpp's sliceAxis: 0=X, 1=Y, 2=Z); the function has
\* no parameter for it.
GenerateSliceGridSeedsCall ==
    /\ Idle
    /\ \E axis \in 0 .. 3, slice \in -1 .. dimZ :
          /\ maskReads' = SliceMaskReads(TRUE, slice)
          /\ \E oobTrue \in SUBSET (maskReads' \ (0 .. NumVoxels - 1)) :
                ret' = [op |-> "generateSliceGridSeeds", args |-> <<axis, slice>>,
                        val |-> GenerateSliceGridSeeds(TRUE, slice, oobTrue)]
    /\ reads' = {}
    /\ UNCHANGED <<app, fieldVars, cfgVars, trace, batchVars>>

-----------------------------------------------------------------------------
(* The tracer's configuration *)

\* StreamlineTracer's constructor copies its arguments into the members.
Configured(c) ==
    /\ stepSize = c.stepSize
    /\ maxSteps = c.maxSteps
    /\ minMagnitude = c.minMagnitude
    /\ maxLength = c.maxLength
    /\ maxAngle = c.maxAngle

\* Step sizes: half a voxel (Source.cpp's stepSize = 0.5f) and a whole voxel
HalfVoxelStep == RK4Weight
FullVoxelStep == Unit

\* Step caps: one that ends a trace inside the grid, one that does not
FewSteps == 2
ManySteps == 8

\* Length caps, in voxels: one that ends a trace inside the grid, one that
\* does not
ShortLength == 1
LongLength == 50

\* maxAngle = 0, 0.01 rad (the constructor's default), 30, 45 and 135 degrees
AngleZero == CosOf(FALSE, 1, 1)
AngleDefault == CosOf(FALSE, 9999, 10000)
Angle30 == CosOf(FALSE, 3, 4)
Angle45 == CosOf(FALSE, 1, 2)
Angle135 == CosOf(TRUE, 1, 2)

BaseConfig ==
    [stepSize |-> HalfVoxelStep, maxSteps |-> ManySteps, minMagnitude |-> 1,
     maxLength |-> LongLength * VoxelLength, maxAngle |-> AngleDefault]

TraceConfigs ==
    {BaseConfig,
     [BaseConfig EXCEPT !.stepSize = FullVoxelStep],
     [BaseConfig EXCEPT !.maxSteps = FewSteps],
     [BaseConfig EXCEPT !.maxLength = ShortLength * VoxelLength],
     [BaseConfig EXCEPT !.minMagnitude = 0],
     [BaseConfig EXCEPT !.minMagnitude = 2],
     [BaseConfig EXCEPT !.maxAngle = AngleZero],
     [BaseConfig EXCEPT !.maxAngle = Angle30],
     [BaseConfig EXCEPT !.maxAngle = Angle45],
     [BaseConfig EXCEPT !.maxAngle = Angle135]}

-----------------------------------------------------------------------------
(* One traceStreamline call, step by step *)

IdleTrace ==
    [pc |-> "idle", seed |-> DefaultPoint, dir |-> EnterDirection(DefaultPoint, 1),
     forwardPath |-> <<>>, backwardPath |-> <<>>, streamline |-> <<>>]

\* Seeds: the voxel positions, a point between voxels, and a point outside
\* the grid.
TraceSeeds ==
    {VoxelPoint(v[1], v[2], v[3]) : v \in Voxels}
        \cup {<<RK4Weight, 0, 0>>, <<dimX * Unit, 0, 0>>}

\* traceStreamline(seed) up to its first direction trace: the bounds check,
\* then the entry into traceStreamlineDirection(seed, 1)
TraceStreamlineCallUnvalidated ==
    /\ trace.pc = "idle"
    /\ \E seed \in TraceSeeds :
          trace' = [IdleTrace EXCEPT !.pc = "forward", !.seed = seed,
                                     !.dir = EnterDirection(seed, 1)]
    /\ UNCHANGED <<app, fieldVars, cfgVars, callVars, batchVars>>
TraceStreamlineCall ==
    /\ trace.pc = "idle"
    /\ \E seed \in TraceSeeds :
          trace' = IF ~IsInBounds(seed[1], seed[2], seed[3])
                   THEN [IdleTrace EXCEPT !.pc = "returned", !.seed = seed]
                   ELSE [IdleTrace EXCEPT !.pc = "forward", !.seed = seed,
                                          !.dir = EnterDirection(seed, 1)]
    /\ UNCHANGED <<app, fieldVars, cfgVars, callVars, batchVars>>

InDirection == trace.pc \in {"forward", "backward"}

\* One pass through the loop of the direction trace in progress
DirectionStepCountingDown ==
    /\ InDirection /\ trace.dir.why = "running"
    /\ trace' = [trace EXCEPT !.dir = LoopPass(trace.dir)]
    /\ maxSteps' = maxSteps - 1
    /\ UNCHANGED <<app, fieldVars, stepSize, minMagnitude, maxLength, maxAngle,
                   callVars, batchVars>>
DirectionStep ==
    /\ InDirection /\ trace.dir.why = "running"
    /\ trace' = [trace EXCEPT !.dir = LoopPass(trace.dir)]
    /\ UNCHANGED <<app, fieldVars, cfgVars, callVars, batchVars>>

\* The direction trace returns its path: traceStreamline goes on to the
\* backward trace, or combines the two paths and returns.
DirectionReturn ==
    /\ InDirection /\ trace.dir.why # "running"
    /\ trace' = IF trace.pc = "forward"
                THEN [trace EXCEPT !.pc = "backward",
                                   !.forwardPath = trace.dir.path,
                                   !.dir = EnterDirection(trace.seed, 0 - 1)]
                ELSE [trace EXCEPT !.pc = "returned",
                                   !.backwardPath = trace.dir.path,
                                   !.streamline = Combine(trace.dir.path, trace.seed,
                                                          trace.forwardPath)]
    /\ UNCHANGED <<app, fieldVars, cfgVars, callVars, batchVars>>

\* The caller takes the streamline.
TraceDone ==
    /\ trace.pc = "returned"
    /\ trace' = IdleTrace
    /\ UNCHANGED <<app, fieldVars, cfgVars, callVars, batchVars>>

-----------------------------------------------------------------------------
(* traceAllStreamlines: the OpenMP batch *)

\* Threads of the parallel region, and the longest seed list
NumThreads == 2
MaxSeeds == 3

Threads == 1 .. NumThreads

IdleWorkers == [t \in Threads |-> [pc |-> "out", localStreamlines |-> <<>>]]

IdleBatch ==
    [pc |-> "idle", seeds |-> <<>>, streamlines |-> <<>>, taken |-> {},
     lock |-> 0, result |-> <<>>]

\* Seeds of a batch: the voxel positions and a point outside the grid
BatchSeeds ==
    {VoxelPoint(v[1], v[2], v[3]) : v \in Voxels} \cup {<<dimX * Unit, 0, 0>>}

SeedLists == UNION {[1 .. n -> BatchSeeds] : n \in 0 .. MaxSeeds}

\* if (streamline.size() > 2)
KeepsNonEmpty(streamline) == Len(streamline) > 0
Keeps(streamline) == Len(streamline) > 2

\* streamlines.insert(streamlines.end(), local.begin(), local.end())
InsertReplacing(streamlines, localStreamlines) == localStreamlines
InsertAtEnd(streamlines, localStreamlines) == streamlines \o localStreamlines

\* The call: streamlines is created empty and the parallel region starts,
\* every thread with an empty localStreamlines.
TraceAllStreamlinesCall ==
    /\ batch.pc = "idle"
    /\ \E seeds \in SeedLists :
          batch' = [IdleBatch EXCEPT !.pc = "parallel", !.seeds = seeds]
    /\ worker' = [t \in Threads |-> [pc |-> "for", localStreamlines |-> <<>>]]
    /\ UNCHANGED <<app, fieldVars, cfgVars, callVars, trace>>

Untaken == (1 .. Len(batch.seeds)) \ batch.taken

\* One iteration of the omp for loop on thread t: the schedule hands the
\* thread an iteration no thread has run; the thread traces its seed and
\* keeps the streamline if it has more than 2 points.
WorkerIterationClearing(t) ==
    /\ batch.pc = "parallel" /\ worker[t].pc = "for"
    /\ \E i \in Untaken :
          LET streamline == TraceStreamline(batch.seeds[i])
          IN  /\ worker' = [worker EXCEPT ![t].localStreamlines =
                               IF Keeps(streamline)
                               THEN Append(@, streamline)
                               ELSE <<>>]
              /\ batch' = [batch EXCEPT !.taken = @ \cup {i}]
    /\ UNCHANGED <<app, fieldVars, cfgVars, callVars, trace>>
WorkerIteration(t) ==
    /\ batch.pc = "parallel" /\ worker[t].pc = "for"
    /\ \E i \in Untaken :
          LET streamline == TraceStreamline(batch.seeds[i])
          IN  /\ worker' = [worker EXCEPT ![t].localStreamlines =
                               IF Keeps(streamline)
                               THEN Append(@, streamline)
                               ELSE @]
              /\ batch' = [batch EXCEPT !.taken = @ \cup {i}]
    /\ UNCHANGED <<app, fieldVars, cfgVars, callVars, trace>>

\* nowait: a thread whose share of the loop is done goes on to the critical
\* section without waiting for the others.  The schedule decides the shares;
\* every iteration belongs to one, so the last thread in the loop leaves it
\* only when no iteration is left.  omp critical: one thread at a time.
WorkerEnterCritical(t) ==
    /\ batch.pc = "parallel" /\ worker[t].pc = "for"
    /\ Untaken = {} \/ \E u \in Threads \ {t} : worker[u].pc = "for"
    /\ batch.lock = 0
    /\ batch' = [batch EXCEPT !.lock = t]
    /\ worker' = [worker EXCEPT ![t].pc = "critical"]
    /\ UNCHANGED <<app, fieldVars, cfgVars, callVars, trace>>

\* The critical section's insert, and the thread's end of the region
WorkerMerge(t) ==
    /\ batch.pc = "parallel" /\ worker[t].pc = "critical"
    /\ batch' = [batch EXCEPT
                    !.streamlines = InsertAtEnd(@, worker[t].localStreamlines),
                    !.lock = 0]
    /\ worker' = [worker EXCEPT ![t].pc = "done"]
    /\ UNCHANGED <<app, fieldVars, cfgVars, callVars, trace>>

\* The barrier that ends the parallel region, then return streamlines
TraceAllStreamlinesReturn ==
    /\ batch.pc = "parallel"
    /\ \A t \in Threads : worker[t].pc = "done"
    /\ batch' = [batch EXCEPT !.pc = "returned", !.result = batch.streamlines]
    /\ UNCHANGED <<app, fieldVars, cfgVars, callVars, trace, worker>>

\* The caller takes the result.
BatchDone ==
    /\ batch.pc = "returned"
    /\ batch' = IdleBatch
    /\ worker' = IdleWorkers
    /\ UNCHANGED <<app, fieldVars, cfgVars, callVars, trace>>

-----------------------------------------------------------------------------
(* StreamlineTracer's constructor *)

\* The members of a VectorField the constructor reads through `field`
FieldMembersRead == {"dimX", "dimY", "dimZ", "zeroMask"}

\* StreamlineTracer::StreamlineTracer(field, ...): what the call does.
\* exit(EXIT_FAILURE) ends the process.
ConstructUnchecked(fieldIsNull) ==
    [op |-> "StreamlineTracer", fieldIsNull |-> fieldIsNull,
     outcome |-> "constructed", stderr |-> <<>>,
     fieldReads |-> FieldMembersRead]
Construct(fieldIsNull) ==
    IF fieldIsNull
    THEN [op |-> "StreamlineTracer", fieldIsNull |-> TRUE,
          outcome |-> "exit(EXIT_FAILURE)",
          stderr |-> <<"Error: Null vector field provided to StreamlineTracer">>,
          fieldReads |-> {}]
    ELSE [op |-> "StreamlineTracer", fieldIsNull |-> FALSE,
          outcome |-> "constructed", stderr |-> <<>>,
          fieldReads |-> FieldMembersRead]

\* The process has ended.
Exited ==
    /\ ret.op \in {"StreamlineTracer", "VectorField(filename)"}
    /\ ret.outcome = "exit(EXIT_FAILURE)"

\* A tracer is constructed, over the field or over a null pointer; the
\* initializer list copies the arguments into the members.
StreamlineTracerCall ==
    /\ Idle
    /\ \E fieldIsNull \in BOOLEAN, c \in TraceConfigs :
          /\ ret' = Construct(fieldIsNull)
          /\ stepSize' = c.stepSize
          /\ maxSteps' = c.maxSteps
          /\ minMagnitude' = c.minMagnitude
          /\ maxLength' = c.maxLength
          /\ maxAngle' = c.maxAngle
    /\ reads' = {} /\ maskReads' = {}
    /\ UNCHANGED <<app, fieldVars, trace, batchVars>>

-----------------------------------------------------------------------------
(* VectorField's constructor from a tensor field *)

\* Tensors <<t11, t22, t33, t12, t13, t23>>: the zero tensor and two diagonal
\* tensors, with their largest eigenvalue on the x and on the z axis
ZeroTensor == <<0, 0, 0, 0, 0, 0>>
Tensors == {ZeroTensor, <<2, 1, 1, 0, 0, 0>>, <<1, 1, 2, 0, 0, 0>>}

\* The unit eigenvector of the largest eigenvalue of a diagonal tensor
MajorAxis(tensor) ==
    IF tensor[1] >= tensor[2] /\ tensor[1] >= tensor[3] THEN <<1, 0, 0>>
    ELSE IF tensor[2] >= tensor[3] THEN <<0, 1, 0>>
    ELSE <<0, 0, 1>>

\* Eigen::SelfAdjointEigenSolver on a tensor: info() and eigenvectors().col(2).
\* On success the column is the major eigenvector, of either sign.  Without
\* convergence the column is what the iteration left in the matrix: a column
\* of a product of rotations, here any unit axis vector.  The solver is not
\* run on the zero tensor.
SolverOutcomes(tensor) ==
    IF tensor = ZeroTensor
    THEN {[info |-> "not run", col2 |-> ZeroVec]}
    ELSE {[info |-> "Success", col2 |-> Scaled(sign, MajorAxis(tensor))] :
             sign \in {1, 0 - 1}}
         \cup
         {[info |-> "NoConvergence", col2 |-> axis] :
             axis \in {<<1, 0, 0>>, <<0, 1, 0>>, <<0, 0, 1>>}}

\* VectorField::getMajorEigenVector for one voxel's tensor, given what the
\* solver does with it
GetMajorEigenVector(tensor, solved) ==
    IF tensor = ZeroTensor
    THEN ZeroVec
    ELSE solved.col2

\* Dimensions of the tensor fields
TensorDims == {<<2, 1, 1>>, <<1, 1, 2>>}

\* VectorField::VectorField(tensorField, dimX, dimY, dimZ): a new field
\* object, its data filled voxel by voxel from the tensors, its flips at
\* their defaults, its zero mask computed from the data.  Voxel (x, y, z) is
\* number z + dimZ * (y + dimY * x) in the tensor field and in the data.
VectorFieldFromTensors ==
    /\ Idle
    /\ \E dims \in TensorDims :
          LET n == dims[1] * dims[2] * dims[3]
          IN  \E tensorField \in [0 .. n - 1 -> Tensors] :
              \E solved \in [0 .. n - 1 ->
                               UNION {SolverOutcomes(t) : t \in Tensors}] :
                 /\ \A v \in 0 .. n - 1 :
                       solved[v] \in SolverOutcomes(tensorField[v])
                 /\ dimX' = dims[1] /\ dimY' = dims[2] /\ dimZ' = dims[3]
                 /\ data' = [i \in 0 .. 3 * n - 1 |->
                               GetMajorEigenVector(tensorField[i \div 3],
                                                   solved[i \div 3])[(i % 3) + 1]]
                 /\ ret' = [op |-> "VectorField", tensorField |-> tensorField,
                            solved |-> solved,
                            stdout |-> {v \in 0 .. n - 1 :
                                           /\ tensorField[v] # ZeroTensor
                                           /\ solved[v].info # "Success"}]
    /\ flipX' = FALSE /\ flipY' = FALSE /\ flipZ' = FALSE
    /\ \E fresh \in FreshArrays' : zeroMask' = CalculateZeroMask(fresh)'
    /\ reads' = {} /\ maskReads' = {}
    /\ UNCHANGED <<app, cfgVars, trace, batchVars>>

-----------------------------------------------------------------------------
(* VectorField's constructor from a file: readVectorData *)

\* Dimensions of the vector files: header.dim[1..3]
FileDimMax == 3
FileDims == {<<x, y, z>> : x \in 1 .. FileDimMax, y \in 1 .. FileDimMax,
                           z \in 1 .. FileDimMax}

\* int numComponents = 3
NumComponents == 3

\* readVectorData's index of component v of voxel (i, j, k)
ReadIndexOfVoxel(i, j, k, v, dY, dZ) ==
    i * (dZ * dY * NumComponents) + j * (dZ * NumComponents) + k * NumComponents
ReadIndex(i, j, k, v, dY, dZ) ==
    i * (dZ * dY * NumComponents) + j * (dZ * NumComponents) + k * NumComponents + v

\* The loop nest of readVectorData, v outermost and i innermost: pass n
\* (from 0) reads the n-th float of the file and stores it at ReadIndex.
\* The writes in the order they are made.
ReadVectorData(dims, file) ==
    LET dX == dims[1]
        dY == dims[2]
        dZ == dims[3]
    IN  [p \in 1 .. NumComponents * dX * dY * dZ |->
            LET n == p - 1
                i == n % dX
                j == (n \div dX) % dY
                k == (n \div (dX * dY)) % dZ
                v == n \div (dX * dY * dZ)
            IN  [v |-> v, k |-> k, j |-> j, i |-> i,
                 index |-> ReadIndex(i, j, k, v, dY, dZ),
                 value |-> file[n]]]

\* The floats of a vector file after its header: all different, so that the
\* place each one is stored at shows
Files(dims) ==
    {[n \in 0 .. NumComponents * dims[1] * dims[2] * dims[3] - 1 |-> sign * (n + 1)] :
        sign \in {1, 0 - 1}}

\* new float[numVoxels * numComponents] after the writes: an element holds
\* the last value written to it, and what the allocation left in it
\* (garbage) if none was.
ArrayAfter(writes, size, garbage) ==
    [idx \in 0 .. size - 1 |->
        LET at == {p \in 1 .. Len(writes) : writes[p].index = idx}
        IN  IF at = {} THEN garbage
            ELSE writes[CHOOSE p \in at : \A q \in at : q <= p].value]

\* VectorField::VectorField(filename): readVectorData fills a new array from
\* the file; the constructor takes the array and the dimensions, leaves the
\* flips at their defaults and computes the zero mask.  When the stream has
\* failed (a short file) readVectorData deletes the array and returns
\* EXIT_FAILURE, and the constructor ends the process.
VectorFieldFromFile ==
    /\ Idle
    /\ \E dims \in FileDims, fileGood \in BOOLEAN :
       \E file \in Files(dims), garbage \in {0, 1} :
          LET writes == ReadVectorData(dims, file)
          IN  IF fileGood
              THEN /\ dimX' = dims[1] /\ dimY' = dims[2] /\ dimZ' = dims[3]
                   /\ data' = ArrayAfter(writes, NumComponents * dims[1] * dims[2] * dims[3],
                                         garbage)
                   /\ flipX' = FALSE /\ flipY' = FALSE /\ flipZ' = FALSE
                   /\ \E fresh \in FreshArrays' : zeroMask' = CalculateZeroMask(fresh)'
                   /\ ret' = [op |-> "VectorField(filename)", dims |-> dims,
                              file |-> file, writes |-> writes,
                              outcome |-> "constructed"]
              ELSE /\ UNCHANGED fieldVars
                   /\ garbage = 0
                   /\ ret' = [op |-> "VectorField(filename)", dims |-> dims,
                              file |-> file, writes |-> writes,
                              outcome |-> "exit(EXIT_FAILURE)"]
    /\ reads' = {} /\ maskReads' = {}
    /\ UNCHANGED <<app, cfgVars, trace, batchVars>>

-----------------------------------------------------------------------------
(* The application: Source.cpp's globals *)

\* Constants.h
BRAIN_SCALAR_PATH == "data/brain-map.nii"
BRAIN_VECTOR_PATH == "data/brain-vectors.nii"
TOY_SCALAR_PATH == "data/toy-map.nii"
TOY_VECTOR_PATH == "data/toy-evec.nii"

\* A float*: null, or the array it points at
NullPtr == [null |-> TRUE, at |-> <<>>]
ArrayPtr(array) == [null |-> FALSE, at |-> array]

\* No StreamlineTracer exists: the tracers are locals of the handlers
NoTracer == [exists |-> FALSE, field |-> 0]

\* The parameters the application holds are carried in the scale its sliders
\* show: stepSize in hundredths of a voxel, minMagnitude in ten-thousandths,
\* maxLength in tenths.
\* The globals as their initializers leave them.  vectorField is 0 (nullptr)
\* or the identity of a VectorField object; live holds the identities of the
\* objects constructed and not deleted.
Globals ==
    [pc |-> "main", handler |-> "none",
     currentScalarFile |-> BRAIN_SCALAR_PATH,
     currentVectorFile |-> BRAIN_VECTOR_PATH,
     seedingMode |-> "UNIFIED_BRAIN_SEEDING",
     stepSize |-> 50, minMagnitude |-> 10, maxLength |-> 500, maxSteps |-> 1000,
     firstLoad |-> TRUE, needReload |-> FALSE,
     vectorField |-> 0, live |-> {}, allocated |-> 0,
     streamlineRenderer |-> FALSE,
     globalScalarData |-> NullPtr,
     scalarDimX |-> 0, scalarDimY |-> 0, scalarDimZ |-> 0,
     tracer |-> NoTracer, generator |-> "none", few |-> FALSE,
     todo |-> 0, used |-> {}]

\* The application is not part of the behaviour
NoApplication == app = Globals

-----------------------------------------------------------------------------
(* sampleScalarData *)

\* The floats of sampleScalarData are carried in hundredths, the scale of the
\* constant 1.01f; nan marks a NaN.
Hundredths == 100

Float(v) == [nan |-> FALSE, v |-> v]
NaN == [nan |-> TRUE, v |-> 0]

\* a < b on floats: false when either is a NaN
FloatLess(a, b) == ~a.nan /\ ~b.nan /\ a.v < b.v

\* std::min(a, b) is (b < a) ? b : a and std::max(a, b) is (a < b) ? b : a
StdMin(a, b) == IF FloatLess(b, a) THEN b ELSE a
StdMax(a, b) == IF FloatLess(a, b) THEN b ELSE a

\* x = std::max(0.0f, std::min(x, static_cast<float>(scalarDimX - 1.01f)))
ScalarClamp(x, dim) ==
    StdMax(Float(0), StdMin(x, Float(Hundredths * dim - 101)))

\* static_cast<int>(x): the float truncated towards zero; of a NaN, undefined
StaticCastInt(x, undefined) ==
    IF x.nan THEN undefined
    ELSE IF x.v >= 0 THEN x.v \div Hundredths
    ELSE 0 - ((0 - x.v) \div Hundredths)

\* int x1 = std::min(x0 + 1, scalarDimX - 1)
ScalarUpperUnclamped(i0, dim) == i0 + 1
ScalarUpper(i0, dim) == Min(i0 + 1, dim - 1)

\* globalScalarData[z * scalarDimY * scalarDimX + y * scalarDimX + x]
ScalarIndex(a, x, y, z) == z * a.scalarDimY * a.scalarDimX + y * a.scalarDimX + x

\* An element of globalScalarData; outside the array the read gives any float
ScalarRead(a, idx, outside) ==
    IF idx \in DOMAIN a.globalScalarData.at
    THEN a.globalScalarData.at[idx] ELSE outside

\* sampleScalarData(x, y, z) on the globals a: the value returned, times
\* Hundredths^3, and the indices of globalScalarData it read
SampleScalarData(a, x, y, z, undefined, outside) ==
    IF a.globalScalarData.null
       \/ a.scalarDimX <= 0 \/ a.scalarDimY <= 0 \/ a.scalarDimZ <= 0
    THEN [val |-> 0, indices |-> {}]
    ELSE
    LET cx == ScalarClamp(x, a.scalarDimX)
        cy == ScalarClamp(y, a.scalarDimY)
        cz == ScalarClamp(z, a.scalarDimZ)
        x0 == StaticCastInt(cx, undefined)
        y0 == StaticCastInt(cy, undefined)
        z0 == StaticCastInt(cz, undefined)
        x1 == ScalarUpper(x0, a.scalarDimX)
        y1 == ScalarUpper(y0, a.scalarDimY)
        z1 == ScalarUpper(z0, a.scalarDimZ)
        wx == cx.v - Hundredths * x0
        wy == cy.v - Hundredths * y0
        wz == cz.v - Hundredths * z0
        V(xx, yy, zz) == ScalarRead(a, ScalarIndex(a, xx, yy, zz), outside)
        v00 == V(x0, y0, z0) * (Hundredths - wz) + V(x0, y0, z1) * wz
        v01 == V(x0, y1, z0) * (Hundredths - wz) + V(x0, y1, z1) * wz
        v10 == V(x1, y0, z0) * (Hundredths - wz) + V(x1, y0, z1) * wz
        v11 == V(x1, y1, z0) * (Hundredths - wz) + V(x1, y1, z1) * wz
        v0 == v00 * (Hundredths - wy) + v01 * wy
        v1 == v10 * (Hundredths - wy) + v11 * wy
    IN  [val |-> v0 * (Hundredths - wx) + v1 * wx,
         indices |-> {ScalarIndex(a, xx, yy, zz) :
                         xx \in {x0, x1}, yy \in {y0, y1}, zz \in {z0, z1}}]

\* Dimensions of the scalar volumes: header.dim[1..3], some of them 1 or 0
ScalarDims == {<<1, 1, 1>>, <<2, 1, 1>>, <<1, 2, 3>>, <<3, 2, 1>>, <<2, 2, 2>>,
               <<0, 2, 2>>}

\* The globals after loadData has copied a scalar volume of the dimensions
\* dims, its values all different
WithScalarData(a, dims) ==
    [a EXCEPT !.scalarDimX = dims[1], !.scalarDimY = dims[2],
              !.scalarDimZ = dims[3],
              !.globalScalarData =
                  ArrayPtr([idx \in 0 .. dims[1] * dims[2] * dims[3] - 1 |->
                               idx + 1])]

\* The globals after a later loadData has deleted the volume and failed to
\* read another: the pointer is null, the dimensions are the old ones
WithoutScalarData(a) == [a EXCEPT !.globalScalarData = NullPtr]

\* Coordinates: a NaN, the infinities' side of every bound, and points
\* before, on and between the voxels
FarAway == 100000
ScalarCoords ==
    {NaN} \cup {Float(v) : v \in {0 - FarAway, 0 - 1, 0, 50, 99, 100, 199, 250,
                                 FarAway}}

\* A seed generator calls sampleScalarData(x, y, z)
SampleScalarDataCall ==
    /\ Idle
    /\ \E x \in ScalarCoords, y \in ScalarCoords, z \in ScalarCoords :
       \E undefined \in {0 - 1, 0}, outside \in {0} :
          LET r == SampleScalarData(app, x, y, z, undefined, outside)
          IN  /\ ret' = [op |-> "sampleScalarData", args |-> <<x, y, z>>,
                         val |-> r.val]
              /\ reads' = r.indices
    /\ maskReads' = {}
    /\ UNCHANGED <<app, fieldVars, cfgVars, trace, batchVars>>

-----------------------------------------------------------------------------
(* The application's handlers: loadData, Regenerate, seedStreamlinesAtPoint *)

\* currentScalarFile.find("toy") and find("brain"), over the paths the
\* program assigns to currentScalarFile
IsToyDataset(a) == a.currentScalarFile = TOY_SCALAR_PATH
IsBrainDataset(a) == a.currentScalarFile = BRAIN_SCALAR_PATH

\* loadData's choice of the generator its seeds come from.  few:
\* generateUnifiedBrainSeeds returned fewer than 100 seeds.
LoadDataGenerator(a, few) ==
    IF IsToyDataset(a) \/ a.seedingMode = "TOY_DATASET_SEEDING"
    THEN "generateToyDatasetSeeds"
    ELSE IF a.seedingMode = "UNIFIED_BRAIN_SEEDING" /\ IsBrainDataset(a)
    THEN IF few THEN "generateSeedGrid" ELSE "generateUnifiedBrainSeeds"
    ELSE "generateSeedGrid"

\* The choice of the 'Regenerate Streamlines' button's handler
RegenerateGenerator(a, few) ==
    IF a.seedingMode = "UNIFIED_BRAIN_SEEDING" /\ IsBrainDataset(a)
    THEN IF few THEN "generateSeedGrid" ELSE "generateUnifiedBrainSeeds"
    ELSE IF a.seedingMode = "TOY_DATASET_SEEDING"
    THEN "generateToyDatasetSeeds"
    ELSE "generateSeedGrid"

\* if (firstLoad): the defaults of the dataset
FirstLoadDefaults(a) ==
    IF ~a.firstLoad THEN a
    ELSE IF IsToyDataset(a)
    THEN [a EXCEPT !.stepSize = 20, !.minMagnitude = 50, !.maxLength = 250,
                   !.firstLoad = FALSE]
    ELSE IF IsBrainDataset(a)
    THEN [a EXCEPT !.stepSize = 50, !.minMagnitude = 10, !.maxLength = 600,
                   !.maxSteps = 1500, !.firstLoad = FALSE]
    ELSE [a EXCEPT !.firstLoad = FALSE]

\* if (vectorField) { delete vectorField; vectorField = nullptr; }
DeleteVectorFieldOnly(a) ==
    [a EXCEPT !.live = @ \ {a.vectorField}]
DeleteVectorField(a) ==
    [a EXCEPT !.live = @ \ {a.vectorField}, !.vectorField = 0]

\* vectorField = new VectorField(...): an object no pointer has held before
MaxFields == 3
NewVectorField(a) ==
    [a EXCEPT !.allocated = @ + 1, !.vectorField = a.allocated + 1,
              !.live = @ \cup {a.allocated + 1}]

\* The scalar volumes of the two datasets
DatasetDims(file) == IF file = TOY_SCALAR_PATH THEN <<2, 1, 1>> ELSE <<2, 2, 1>>

\* The arguments of StreamlineTracer tracer(vectorField, stepSize, maxSteps,
\* minMagnitude, maxLength): the globals, and the default maxAngle
GlobalsConfig(a) ==
    [stepSize |-> a.stepSize, maxSteps |-> a.maxSteps,
     minMagnitude |-> a.minMagnitude, maxLength |-> a.maxLength,
     maxAngle |-> AngleDefault]

\* A handler has constructed its tracer over vectorField and has its seeds
StartTracing(a, handler, generator, few, seeds) ==
    [a EXCEPT !.pc = "tracing", !.handler = handler,
              !.tracer = [exists |-> TRUE, field |-> a.vectorField,
                          made |-> GlobalsConfig(a)],
              !.generator = generator, !.few = few,
              !.todo = seeds, !.used = {}]

\* loadData from its entry to the construction of its tracer, or to its
\* return if it gets no further.  scalarRead is what readData returns,
\* vectorLoad how new VectorField(filename) ends.
LoadDataEntry(a, scalarRead, vectorLoad, few, seeds) ==
    LET entered == FirstLoadDefaults([a EXCEPT !.needReload = FALSE])
        cleaned == [DeleteVectorField(entered) EXCEPT
                       !.streamlineRenderer = FALSE,
                       !.globalScalarData = NullPtr]
        scalar == WithScalarData(cleaned, DatasetDims(a.currentScalarFile))
    IN  IF scalarRead = "EXIT_FAILURE" THEN cleaned
        ELSE IF vectorLoad = "exit(EXIT_FAILURE)" THEN [scalar EXCEPT !.pc = "exited"]
        ELSE IF vectorLoad = "std::exception" THEN scalar
        ELSE LET loaded == NewVectorField(scalar)
             IN  StartTracing(loaded, "loadData", LoadDataGenerator(loaded, few),
                              few, seeds)

\* The tracer's members, in the StreamlineTracer the handler holds
TracerMembers ==
    [stepSize |-> stepSize, maxSteps |-> maxSteps, minMagnitude |-> minMagnitude,
     maxLength |-> maxLength, maxAngle |-> maxAngle]

\* The constructor's initializer list copies its arguments into the members
MembersCopied(made) ==
    /\ stepSize' = made.stepSize
    /\ maxSteps' = made.maxSteps
    /\ minMagnitude' = made.minMagnitude
    /\ maxLength' = made.maxLength
    /\ maxAngle' = made.maxAngle

\* Seeds a generator returns: none or some
BatchSize == 2

\* loadData() called with the globals a
LoadData(a) ==
    /\ \E scalarRead \in {"EXIT_SUCCESS", "EXIT_FAILURE"},
          vectorLoad \in {"constructed", "exit(EXIT_FAILURE)", "std::exception"},
          few \in BOOLEAN, seeds \in {0, BatchSize} :
          LET r == LoadDataEntry(a, scalarRead, vectorLoad, few, seeds)
          IN  /\ r.allocated <= MaxFields
              /\ app' = r
              /\ IF r.pc = "tracing"
                 THEN MembersCopied(r.tracer.made)
                 ELSE UNCHANGED cfgVars
    /\ UNCHANGED <<fieldVars, callVars, trace, batchVars>>

\* main: the initial files, then loadData()
Main ==
    /\ app.pc = "main"
    /\ LoadData([app EXCEPT !.pc = "frame",
                            !.currentScalarFile = BRAIN_SCALAR_PATH,
                            !.currentVectorFile = BRAIN_VECTOR_PATH])

\* The UI thread is in the render loop's widget code, in no handler
Frame == app.pc = "frame"

\* The frame's last widget: if (ImGui::Button("Reload Data") || needReload)
\* loadData().  Every widget below that sets needReload is followed by it in
\* the same frame.
ClickReload == Frame /\ LoadData(app)

SelectScalarFile ==
    /\ Frame
    /\ \E file \in {TOY_SCALAR_PATH, BRAIN_SCALAR_PATH} :
          LoadData([app EXCEPT !.currentScalarFile = file, !.needReload = TRUE])

SelectVectorFile ==
    /\ Frame
    /\ \E file \in {TOY_VECTOR_PATH, BRAIN_VECTOR_PATH} :
          LoadData([app EXCEPT !.currentVectorFile = file, !.needReload = TRUE])

\* Positions of the 'Step Size' and 'Max Steps' sliders
StepSizes == {50, 100}
StepCounts == {100, 1500}

\* A slider bound to a member of the handler's tracer, moved while the batch
\* runs
MoveSliderOfTracer ==
    /\ app.pc = "tracing"
    /\ \E v \in StepSizes :
          /\ v # stepSize
          /\ stepSize' = v
          /\ app' = [app EXCEPT !.stepSize = v, !.needReload = TRUE]
    /\ UNCHANGED <<maxSteps, minMagnitude, maxLength, maxAngle,
                   fieldVars, callVars, trace, batchVars>>
\* ImGui::SliderFloat("Step Size", &stepSize, ...) and SliderInt("Max Steps",
\* &maxSteps, ...): the global changes, paramsChanged sets needReload
MoveSlider ==
    /\ Frame
    /\ \/ \E v \in StepSizes :
             /\ v # app.stepSize
             /\ LoadData([app EXCEPT !.stepSize = v, !.needReload = TRUE])
       \/ \E v \in StepCounts :
             /\ v # app.maxSteps
             /\ LoadData([app EXCEPT !.maxSteps = v, !.needReload = TRUE])

\* The seeding method's radio buttons
SelectSeedingMode ==
    /\ Frame
    /\ \E mode \in {"GRID_SEEDING", "UNIFIED_BRAIN_SEEDING", "TOY_DATASET_SEEDING"} :
          LoadData([app EXCEPT !.seedingMode = mode, !.needReload = TRUE])

\* if (ImGui::Button("Regenerate Streamlines")) if (vectorField &&
\* streamlineRenderer): a tracer, its seeds, its batch
ClickRegenerate ==
    /\ Frame
    /\ app.vectorField # 0 /\ app.streamlineRenderer
    /\ \E few \in BOOLEAN, seeds \in {0, BatchSize} :
          /\ app' = StartTracing(app, "Regenerate", RegenerateGenerator(app, few),
                                 few, seeds)
          /\ MembersCopied(GlobalsConfig(app))
    /\ UNCHANGED <<fieldVars, callVars, trace, batchVars>>

\* The mouse callback's seedStreamlinesAtPoint: if (!vectorField) return;
\* a tracer and one traceStreamline
SeedStreamlinesAtPoint ==
    /\ Frame
    /\ app.vectorField # 0
    /\ app' = StartTracing(app, "seedStreamlinesAtPoint", "none", FALSE, 1)
    /\ MembersCopied(GlobalsConfig(app))
    /\ UNCHANGED <<fieldVars, callVars, trace, batchVars>>

\* The handler's tracer traces one more seed: it reads its members and its
\* field
TraceSeed ==
    /\ app.pc = "tracing" /\ app.todo > 0
    /\ app' = [app EXCEPT !.todo = @ - 1, !.used = @ \cup {TracerMembers}]
    /\ UNCHANGED <<fieldVars, cfgVars, callVars, trace, batchVars>>

\* The batch is done and the handler returns: its tracer is destroyed.
\* loadData makes the renderer and clears needReload on its way out.
HandlerReturn ==
    /\ app.pc = "tracing" /\ app.todo = 0
    /\ app' = [app EXCEPT !.pc = "frame", !.handler = "none",
                          !.tracer = NoTracer, !.generator = "none",
                          !.few = FALSE, !.used = {},
                          !.streamlineRenderer =
                              IF app.handler = "loadData" THEN TRUE ELSE @,
                          !.needReload =
                              IF app.handler = "loadData" THEN FALSE ELSE @]
    /\ UNCHANGED <<fieldVars, cfgVars, callVars, trace, batchVars>>

-----------------------------------------------------------------------------
(* Specifications *)

vars == <<dimX, dimY, dimZ, data, flipX, flipY, flipZ, zeroMask,
          stepSize, maxSteps, minMagnitude, maxLength, maxAngle,
          trace, batch, worker, ret, reads, maskReads, app>>

NoBatch == batch = IdleBatch /\ worker = IdleWorkers

NoTracing == Configured(BaseConfig) /\ trace = IdleTrace /\ NoBatch

NoCalls == ret = NoCall /\ reads = {} /\ maskReads = {}

\* The VectorField's point queries
InitVF == InitField(FieldDimsVF, Palette) /\ NoTracing /\ NoCalls /\ NoApplication

NextVF == SetFlip \/ GetVectorCall \/ IsInBoundsCall \/ InterpolateVectorCall \/ Forget

SpecVF == InitVF /\ [][NextVF]_vars

\* The zero mask and the slice-grid seed generator
InitSeeds == InitField(FieldDimsSeeds, Palette) /\ NoTracing /\ NoCalls /\ NoApplication

NextSeeds == SetFlip \/ GenerateSliceGridSeedsCall \/ Forget

SpecSeeds == InitSeeds /\ [][NextSeeds]_vars

\* Single traces over the fields of the tracing family
InitTrace ==
    /\ InitField(TraceDims, TracePalette)
    /\ \E c \in TraceConfigs : Configured(c)
    /\ trace = IdleTrace
    /\ NoBatch
    /\ NoCalls /\ NoApplication

NextTrace == TraceStreamlineCall \/ DirectionStep \/ DirectionReturn \/ TraceDone

SpecTrace == InitTrace /\ [][NextTrace]_vars

\* Batches over the fields of the batch family
BatchConfigs == {BaseConfig, [BaseConfig EXCEPT !.maxSteps = FewSteps]}

InitBatch ==
    /\ InitField(BatchDims, BatchPalette)
    /\ \E c \in BatchConfigs : Configured(c)
    /\ trace = IdleTrace
    /\ NoBatch
    /\ NoCalls /\ NoApplication

NextBatch ==
    \/ TraceAllStreamlinesCall
    \/ \E t \in Threads : WorkerIteration(t)
    \/ \E t \in Threads : WorkerEnterCritical(t)
    \/ \E t \in Threads : WorkerMerge(t)
    \/ TraceAllStreamlinesReturn
    \/ BatchDone

SpecBatch == InitBatch /\ [][NextBatch]_vars

\* Tracers constructed over the field and over a null pointer, and used
InitConstruct == InitField(BatchDims, BatchPalette) /\ NoTracing /\ NoCalls /\ NoApplication

\* Only a running process goes on: after exit no result is dropped and, as
\* every call needs Idle, no call is made.
ForgetWhileRunning == ~Exited /\ Forget

NextConstruct ==
    \/ StreamlineTracerCall
    \/ GenerateSliceGridSeedsCall
    \/ ForgetWhileRunning

SpecConstruct == InitConstruct /\ [][NextConstruct]_vars



\* Scalar samples, of a loaded volume and with none loaded
InitScalar ==
    /\ InitField(BatchDims, BatchPalette) /\ NoTracing /\ NoCalls
    /\ \E dims \in ScalarDims :
          \/ app = WithScalarData(Globals, dims)
          \/ app = WithoutScalarData(WithScalarData(Globals, dims))
          \/ app = Globals

NextScalar == SampleScalarDataCall \/ Forget

SpecScalar == InitScalar /\ [][NextScalar]_vars


\* The application from main on: loads, UI events and the handlers' batches
InitApp == InitField(BatchDims, {<<1, 0, 0>>}) /\ NoTracing /\ NoCalls /\ app = Globals

NextApp ==
    \/ Main
    \/ ClickReload
    \/ SelectScalarFile
    \/ SelectVectorFile
    \/ MoveSlider
    \/ SelectSeedingMode
    \/ ClickRegenerate
    \/ SeedStreamlinesAtPoint
    \/ TraceSeed
    \/ HandlerReturn

SpecApp == InitApp /\ [][NextApp]_vars

\* The VectorField's construction from a vector file
InitFile == InitField(BatchDims, BatchPalette) /\ NoTracing /\ NoCalls /\ NoApplication

NextFile == VectorFieldFromFile \/ ForgetWhileRunning

SpecFile == InitFile /\ [][NextFile]_vars

\* Fields constructed from tensor fields
InitTensor == InitField(BatchDims, BatchPalette) /\ NoTracing /\ NoCalls /\ NoApplication

NextTensor == VectorFieldFromTensors \/ Forget

SpecTensor == InitTensor /\ [][NextTensor]_vars

\* Traces and batches under fair scheduling on a row of 2 voxels: a running
\* call keeps executing, and every OpenMP thread keeps being scheduled.
LiveDims == {<<2, 1, 1>>}

LiveConfigs ==
    {BaseConfig,
     [BaseConfig EXCEPT !.maxSteps = FewSteps],
     [BaseConfig EXCEPT !.maxLength = ShortLength * VoxelLength],
     [BaseConfig EXCEPT !.minMagnitude = 0, !.maxSteps = FewSteps]}

InitLive ==
    /\ InitField(LiveDims, BatchPalette)
    /\ \E c \in LiveConfigs : Configured(c)
    /\ trace = IdleTrace
    /\ NoBatch
    /\ NoCalls /\ NoApplication

\* One call per behaviour, followed to its return
NextLive ==
    \/ batch.pc = "idle" /\ TraceStreamlineCall
    \/ DirectionStep
    \/ DirectionReturn
    \/ trace.pc = "idle" /\ TraceAllStreamlinesCall
    \/ \E t \in Threads : WorkerIteration(t)
    \/ \E t \in Threads : WorkerEnterCritical(t)
    \/ \E t \in Threads : WorkerMerge(t)
    \/ TraceAllStreamlinesReturn

\* The states where DirectionStep, and WorkerIteration(t), can take a step:
\* every pass changes the loop's locals, every iteration the set of taken
\* iterations.
StepEnabled == InDirection /\ trace.dir.why = "running"
IterationEnabled(t) ==
    batch.pc = "parallel" /\ worker[t].pc = "for" /\ Untaken # {}

\* Weak fairness of every step of a running call.  For the two actions that
\* trace, WF_vars(A) is written out with ENABLED <<A>>_vars as the state
\* predicate above.
FairLive ==
    /\ []<>(~StepEnabled) \/ []<><<DirectionStep>>_vars
    /\ WF_vars(DirectionReturn)
    /\ \A t \in Threads :
          /\ []<>(~IterationEnabled(t)) \/ []<><<WorkerIteration(t)>>_vars
          /\ WF_vars(WorkerEnterCritical(t))
          /\ WF_vars(WorkerMerge(t))
    /\ WF_vars(TraceAllStreamlinesReturn)

SpecLive == InitLive /\ [][NextLive]_vars /\ FairLive

-----------------------------------------------------------------------------
(* Claims about the VectorField and the seed generator *)

\* The raw component c (1..3) stored for voxel (x, y, z)
RawAt(x, y, z, c) == data[3 * (z + dimZ * (y + dimY * x)) + (c - 1)]

RawVector(x, y, z) == <<RawAt(x, y, z, 1), RawAt(x, y, z, 2), RawAt(x, y, z, 3)>>

IsSliceCall == ret.op = "generateSliceGridSeeds"
SliceArg == ret.args[2]
AxisArg == ret.args[1]

SeqToSet(seq) == {seq[k] : k \in 1 .. Len(seq)}

\* C6: for every valid slice index generateSliceGridSeeds returns exactly one
\* point per voxel position of the slice plane whose zero mask entry (as
\* calculateZeroMask computed it for that voxel) is true, and no other point:
\* no duplicates, and W*H points on a fully valid W x H slice.
C6_SeedsAreTheMaskedSliceVoxels ==
    (IsSliceCall /\ SliceArg >= 0 /\ SliceArg < dimZ) =>
        /\ SeqToSet(ret.val) =
              {<<x * Unit, y * Unit, SliceArg * Unit>> :
                  <<x, y>> \in {p \in (0 .. dimX - 1) \X (0 .. dimY - 1) :
                      zeroMask[p[1] + p[2] * dimX + SliceArg * dimX * dimY]}}
        /\ Cardinality(SeqToSet(ret.val)) = Len(ret.val)

\* The dimension of the axis numbered as in Constants.h (0 = X, 1 = Y, 2 = Z)
DimOfAxis(axis) == IF axis = 0 THEN dimX ELSE IF axis = 1 THEN dimY ELSE dimZ

IsGetVectorCall == ret.op = "getVector"

ArgOutOfRange ==
    \/ ret.args[1] < 0 \/ ret.args[1] >= dimX
    \/ ret.args[2] < 0 \/ ret.args[2] >= dimY
    \/ ret.args[3] < 0 \/ ret.args[3] >= dimZ

\* C8: for every integer coordinate triple with an index < 0 or >= the
\* dimension of its axis, getVector returns (0,0,0) and reads no element of
\* the data array.
C8_OutOfRangeIsZero ==
    (IsGetVectorCall /\ ArgOutOfRange) => (ret.val = ZeroVec /\ reads = {})

\* An out-of-range call, one past the end of an axis, on a field with no
\* zero voxel
C8_Witness ==
    /\ IsGetVectorCall /\ ret.args[1] = dimX /\ ret.val = ZeroVec
    /\ \A v \in Voxels : RawVector(v[1], v[2], v[3]) # ZeroVec

\* C9: for every in-range coordinate, getVector returns the raw values at
\* data index 3*(z + dimZ*(y + dimY*x)) + {0,1,2}, component c negated exactly
\* when its flip flag is set.
C9_InRangeIsRawFlipped ==
    (IsGetVectorCall /\ ~ArgOutOfRange) =>
        LET x == ret.args[1]
            y == ret.args[2]
            z == ret.args[3]
            i == 3 * (z + dimZ * (y + dimY * x))
        IN  /\ ret.val[1] = (IF flipX THEN 0 - data[i] ELSE data[i])
            /\ ret.val[2] = (IF flipY THEN 0 - data[i + 1] ELSE data[i + 1])
            /\ ret.val[3] = (IF flipZ THEN 0 - data[i + 2] ELSE data[i + 2])
            /\ reads = {i, i + 1, i + 2}

\* An in-range read of the voxel (1,-2,3) with flipY alone set
C9_Witness ==
    /\ IsGetVectorCall /\ ~ArgOutOfRange
    /\ flipY /\ ~flipX /\ ~flipZ
    /\ ret.val = <<1, 2, 3>>

IsBoundsCall == ret.op = "isInBounds"

\* C10: isInBounds is true exactly when each coordinate lies in the closed
\* interval [0, dim-1] of its axis: a coordinate equal to dim-1 is in bounds,
\* one equal to dim or below 0 on any axis is not.
C10_InBoundsIffInClosedBox ==
    IsBoundsCall =>
        LET dims == <<dimX, dimY, dimZ>>
            inside(a) == 0 <= ret.args[a] /\ ret.args[a] <= (dims[a] - 1) * Unit
        IN  /\ ret.val = (\A a \in 1 .. 3 : inside(a))
            /\ (\E a \in 1 .. 3 : ret.args[a] = dims[a] * Unit) => ~ret.val
            /\ (\E a \in 1 .. 3 : ret.args[a] < 0) => ~ret.val
            /\ (\A a \in 1 .. 3 : ret.args[a] = (dims[a] - 1) * Unit) => ret.val

\* The far corner, every coordinate equal to dim-1, answered true
C10_Witness ==
    /\ IsBoundsCall /\ ret.val
    /\ ret.args = <<(dimX - 1) * Unit, (dimY - 1) * Unit, (dimZ - 1) * Unit>>
    /\ dimX > 1

-----------------------------------------------------------------------------
(* Claims about single traces *)

\* The direction trace in progress or just finished
Dir == trace.dir

\* The polyline of a direction trace: the seed, then the accepted points
Polyline(t) == <<t.seed>> \o t.path

\* The zero mask entry of the voxel nearest to the point p
OnSupport(p) ==
    zeroMask[Roundf(p[1]) + Roundf(p[2]) * dimX + Roundf(p[3]) * dimX * dimY]

\* C2: a direction trace whose next step would land on a voxel whose vector
\* is zero (outside the zero-mask region) ends with the points traced before
\* that step: started from a seed inside the region, no point of the path
\* lies outside it.
C2_PathStaysOnSupport ==
    (InDirection /\ OnSupport(Dir.seed)) =>
        \A k \in 1 .. Len(Dir.path) : OnSupport(Dir.path[k])

\* The angle between a and b is more than maxAngle (a, b non-zero): the
\* cosine of the angle is below cos(maxAngle).
TurnExceedsMaxAngle(a, b) ==
    LET d == Dot(a, b)
        nn == Dot(a, a) * Dot(b, b)
    IN  /\ nn # 0
        /\ IF maxAngle.neg
           THEN d < 0 /\ d * d * maxAngle.den > maxAngle.num * nn
           ELSE d < 0 \/ d * d * maxAngle.den < maxAngle.num * nn

\* C3: whenever the direction from the previously accepted point to the
\* current point and the direction from the current point to the candidate
\* differ by more than maxAngle the trace stops, so no accepted turn exceeds
\* maxAngle; and the trace does not stop for the angle when the turn is at
\* most maxAngle.
C3_StopsExactlyOnSharpTurns ==
    InDirection =>
        LET line == Polyline(Dir)
        IN  /\ \A k \in 2 .. Len(line) - 1 :
                  ~TurnExceedsMaxAngle(VecDiff(line[k], line[k - 1]),
                                       VecDiff(line[k + 1], line[k]))
            /\ Dir.why = "angle" =>
                  /\ Len(line) >= 2
                  /\ TurnExceedsMaxAngle(
                        VecDiff(line[Len(line)], line[Len(line) - 1]),
                        VecDiff(Rk4Integrate(Dir.currentPos, Dir.direction * stepSize),
                                line[Len(line)]))

\* Every voxel holds the same non-zero vector.
UniformField ==
    /\ RawVector(0, 0, 0) # ZeroVec
    /\ \A v \in Voxels : RawVector(v[1], v[2], v[3]) = RawVector(0, 0, 0)

\* The unit vector of an axis-aligned vector
UnitOf(v) == [c \in 1 .. 3 |-> IF v[c] > 0 THEN 1 ELSE IF v[c] < 0 THEN 0 - 1 ELSE 0]

\* The number of points a direction accepts when only the caps end it
CapCount ==
    LET perStep == stepSize * Unit
        byLength == (maxLength + perStep - 1) \div perStep
    IN  IF maxSteps < byLength THEN maxSteps ELSE byLength

\* C4: in a uniform non-zero field the k-th accepted point of a direction is
\* seed + k * (direction * stepSize) * normalize(v): the points lie on one
\* line through the seed, stepSize apart, and where neither the bounds, the
\* angle test nor the magnitude test ended the trace there are as many as
\* the step/length cap allows; the combined streamline lies on the same line.
C4_UniformFieldGivesEvenStraightLine ==
    UniformField =>
        LET n == UnitOf(RawVector(0, 0, 0))
        IN  /\ InDirection =>
                  /\ \A k \in 1 .. Len(Dir.path) :
                        Dir.path[k] =
                            VecAdd(Dir.seed, Scaled(k * Dir.direction * stepSize, n))
                  /\ Dir.why = "cap" => Len(Dir.path) = CapCount
            /\ (trace.pc = "returned" /\ trace.streamline # <<>>) =>
                  \A k \in 1 .. Len(trace.streamline) :
                      trace.streamline[k] =
                          VecAdd(trace.seed,
                                 Scaled((k - Len(trace.backwardPath) - 1) * stepSize, n))

\* A uniform field, a direction ended by the step or length cap with at
\* least two points accepted
C4_Witness ==
    /\ UniformField /\ InDirection
    /\ Dir.why = "cap" /\ Len(Dir.path) >= 2

-----------------------------------------------------------------------------
(* Claims about the batch *)

\* The multiset of the elements of a sequence
BagOf(seq) ==
    [x \in SeqToSet(seq) |-> Cardinality({k \in 1 .. Len(seq) : seq[k] = x})]

\* traceStreamline of every seed, in seed order
TracedSeeds(seeds) == [i \in 1 .. Len(seeds) |-> TraceStreamline(seeds[i])]

LongerThanTwo(streamline) == Len(streamline) > 2

\* C1: for every interleaving of the threads, the multiset of streamlines
\* traceAllStreamlines returns is the multiset of traceStreamline(s) over the
\* seeds s whose streamline has more than 2 points; a singleton batch returns
\* exactly the point sequence traceStreamline returns.
C1_BatchIsTheMultisetOfTraces ==
    batch.pc = "returned" =>
        /\ BagOf(batch.result) =
              BagOf(SelectSeq(TracedSeeds(batch.seeds), LongerThanTwo))
        /\ (Len(batch.seeds) = 1 /\ Len(TraceStreamline(batch.seeds[1])) > 2) =>
              batch.result = <<TraceStreamline(batch.seeds[1])>>

\* A returned batch of three seeds, one of them twice, whose streamlines were
\* kept by two different threads, and one seed whose streamline was dropped
C1_Witness ==
    /\ batch.pc = "returned"
    /\ Len(batch.seeds) = 3
    /\ Len(batch.result) = 2
    /\ \A t \in Threads : Len(worker[t].localStreamlines) = 1
    /\ batch.result[1] = batch.result[2]

-----------------------------------------------------------------------------
(* Claims about interpolateVector *)

IsInterpolateCall == ret.op = "interpolateVector"

OnLattice(pos) == \A c \in 1 .. 3 : pos[c] % Unit = 0

\* C11: at every in-bounds integer lattice point, the dim-1 faces included,
\* interpolateVector returns the vector getVector returns there, in the
\* trilinear branch as well as in the nearest-sample branch.
C11_LatticePointsAreSampled ==
    (/\ IsInterpolateCall
     /\ OnLattice(ret.args)
     /\ IsInBounds(ret.args[1], ret.args[2], ret.args[3])) =>
        ret.val = Scaled(WeightDen,
                         GetVector(ret.args[1] \div Unit, ret.args[2] \div Unit,
                                   ret.args[3] \div Unit))

\* The trilinear branch at a point of the x = dimX-1 face, where the base
\* index is clamped to dimX-2 and the sample there is a different vector
C11_Witness ==
    /\ IsInterpolateCall /\ ~ret.simple
    /\ OnLattice(ret.args)
    /\ dimX >= 2 /\ ret.args[1] = (dimX - 1) * Unit
    /\ ret.val # ZeroVec
    /\ GetVector(dimX - 2, ret.args[2] \div Unit, ret.args[3] \div Unit)
          # GetVector(dimX - 1, ret.args[2] \div Unit, ret.args[3] \div Unit)

-----------------------------------------------------------------------------
(* Claims about traceStreamline and the batch's filter *)

\* Every streamline a batch holds: in the returned list, in the shared
\* vector and in the threads' local lists
HeldStreamlines ==
    SeqToSet(batch.result) \cup SeqToSet(batch.streamlines)
        \cup UNION {SeqToSet(worker[t].localStreamlines) : t \in Threads}

\* C12: every streamline in the list traceAllStreamlines returns has at least
\* 3 points; a trace of 2 or fewer points never appears in the output, nor
\* in any list the batch builds it from.
C12_BatchKeepsOnlyThreePointsOrMore ==
    \A streamline \in HeldStreamlines : Len(streamline) >= 3

\* A returned batch that kept a streamline and dropped an in-bounds seed's
\* trace of 1 or 2 points
C12_Witness ==
    /\ batch.pc = "returned"
    /\ batch.result # <<>>
    /\ \E i \in 1 .. Len(batch.seeds) :
          Len(TraceStreamline(batch.seeds[i])) \in {1, 2}

SeedInBounds == IsInBounds(trace.seed[1], trace.seed[2], trace.seed[3])

\* C13: for a seed outside the field's coordinate bounds traceStreamline
\* returns an empty streamline at once: neither direction is entered.
C13_OutOfBoundsSeedGivesEmpty ==
    (trace.pc # "idle" /\ ~SeedInBounds) =>
        /\ trace.pc = "returned"
        /\ trace.streamline = <<>>
        /\ trace.forwardPath = <<>> /\ trace.backwardPath = <<>>
        /\ trace.dir = IdleTrace.dir
        /\ TraceStreamline(trace.seed) = <<>>

C13_Witness ==
    /\ trace.pc = "returned" /\ ~SeedInBounds
    /\ trace.seed = <<dimX * Unit, 0, 0>>

\* C14: for an in-bounds seed traceStreamline returns
\* reverse(backward) + [seed] + forward: the seed is at index |backward|
\* (counting from 0), the result has |backward| + 1 + |forward| points, and
\* each path is what traceStreamlineDirection returns for its direction on
\* its own.
C14_StreamlineIsBackwardSeedForward ==
    (trace.pc = "returned" /\ SeedInBounds) =>
        LET b == Len(trace.backwardPath)
            f == Len(trace.forwardPath)
        IN  /\ Len(trace.streamline) = b + 1 + f
            /\ trace.streamline[b + 1] = trace.seed
            /\ \A k \in 1 .. b :
                  trace.streamline[k] = trace.backwardPath[b + 1 - k]
            /\ \A k \in 1 .. f :
                  trace.streamline[b + 1 + k] = trace.forwardPath[k]
            /\ trace.forwardPath = TraceStreamlineDirection(trace.seed, 1)
            /\ trace.backwardPath = TraceStreamlineDirection(trace.seed, 0 - 1)
            /\ trace.streamline = TraceStreamline(trace.seed)

\* A returned streamline with at least two backward points and a forward one
C14_Witness ==
    /\ trace.pc = "returned" /\ SeedInBounds
    /\ Len(trace.backwardPath) >= 2
    /\ trace.backwardPath[1] # trace.backwardPath[2]
    /\ Len(trace.forwardPath) >= 1

-----------------------------------------------------------------------------
(* Claims about termination *)

\* The loop of the direction trace is at its condition with a cap reached.
AtCap ==
    /\ InDirection /\ Dir.why = "running"
    /\ Dir.step >= maxSteps \/ Dir.totalLength >= maxLength

\* The loop has run at most maxSteps passes, one accepted point each.
WithinStepCap ==
    InDirection =>
        /\ Dir.step <= maxSteps
        /\ Len(Dir.path) = Dir.step

\* Every path a finished trace holds has at most maxSteps points.
PathsWithinStepCap ==
    /\ Len(trace.forwardPath) <= maxSteps
    /\ Len(trace.backwardPath) <= maxSteps

\* C15: traceStreamlineDirection terminates: its loop runs at most maxSteps
\* passes and exits at the first loop condition after the accumulated length
\* has reached maxLength, the returned path has at most maxSteps points, every
\* direction trace returns, and every batch runs to completion.
C15_TracesAndBatchesTerminate ==
    /\ [](WithinStepCap /\ PathsWithinStepCap)
    /\ [][AtCap => trace'.dir.why = "cap"]_vars
    /\ (InDirection ~> trace.pc = "returned")
    /\ (batch.pc = "parallel" ~> batch.pc = "returned")

\* A direction ended by the step cap with maxSteps points, the last passes
\* of which did not move
C15_Witness ==
    /\ InDirection /\ Dir.why = "cap"
    /\ Dir.step = maxSteps
    /\ Len(Dir.path) = maxSteps
    /\ Dir.path[maxSteps] = Dir.path[maxSteps - 1]

-----------------------------------------------------------------------------
(* Claims about the validity gate and the stuck sentinel *)

\* C19: a direction records a point only if both the seed and the first
\* stepped-to point are inside the field's support (zero mask true).
C19_FirstSegmentOnSupport ==
    (InDirection /\ Dir.path # <<>>) =>
        OnSupport(Dir.seed) /\ OnSupport(Dir.path[1])

\* C20: the trace stops when the integrator returns the current position,
\* so no path holds the same point twice in a row and the first path point
\* is never the seed.
C20_NoRepeatedPoint ==
    InDirection =>
        LET line == Polyline(Dir)
        IN  \A k \in 1 .. Len(line) - 1 : line[k + 1] # line[k]

-----------------------------------------------------------------------------
(* Claims about the locality of failures *)

\* A seed that adds nothing to a batch: out of bounds, or with a trace of
\* 2 or fewer points
FailingSeed(seed) ==
    \/ ~IsInBounds(seed[1], seed[2], seed[3])
    \/ Len(TraceStreamline(seed)) <= 2

SucceedingSeed(seed) == ~FailingSeed(seed)

\* A list is the other one with elements added at its end.
Extends(longer, shorter) ==
    /\ Len(longer) >= Len(shorter)
    /\ \A k \in 1 .. Len(shorter) : longer[k] = shorter[k]

\* C17: failures are local to one streamline.  The batch returns, for any
\* seed list, the streamlines of the list without its failing seeds (those
\* out of bounds or with an empty or short trace); and no step of a batch
\* takes a streamline out of a thread's list or out of the shared list.
C17_FailingSeedsChangeNothing ==
    /\ [](batch.pc = "returned" =>
             BagOf(batch.result) =
                 BagOf(TracedSeeds(SelectSeq(batch.seeds, SucceedingSeed))))
    /\ [][batch.pc = "parallel" =>
             /\ Extends(batch'.streamlines, batch.streamlines)
             /\ \A t \in Threads :
                   Extends(worker'[t].localStreamlines, worker[t].localStreamlines)
          ]_vars

\* A returned batch of an out-of-bounds seed, an in-bounds seed with a short
\* trace and a seed whose streamline is returned
C17_Witness ==
    /\ batch.pc = "returned"
    /\ Len(batch.seeds) = 3
    /\ Len(batch.result) = 1
    /\ \E i, j \in 1 .. 3 :
          /\ ~IsInBounds(batch.seeds[i][1], batch.seeds[i][2], batch.seeds[i][3])
          /\ IsInBounds(batch.seeds[j][1], batch.seeds[j][2], batch.seeds[j][3])
          /\ FailingSeed(batch.seeds[j])

-----------------------------------------------------------------------------
(* Claims about the constructors *)

IsTracerConstruction == ret.op = "StreamlineTracer"

\* C16: constructing a StreamlineTracer with a null field ends the process
\* with an error message before any member of the field is read, and nothing
\* runs after that: no tracer over a null field is ever used.
C16_NullFieldFailsLoudly ==
    /\ []((IsTracerConstruction /\ ret.fieldIsNull) =>
             /\ Exited
             /\ ret.stderr # <<>>
             /\ ret.fieldReads = {})
    /\ [][~Exited]_vars

\* A construction over a null field that ended the process
C16_Witness == IsTracerConstruction /\ ret.fieldIsNull /\ Exited

IsTensorConstruction == ret.op = "VectorField"

NotConverged(v) ==
    ret.tensorField[v] # ZeroTensor /\ ret.solved[v].info = "NoConvergence"

StoredVector(v) == <<data[3 * v], data[3 * v + 1], data[3 * v + 2]>>

\* C18: in the field built from tensors, a voxel whose tensor the
\* eigensolver did not converge on holds the zero vector and a warning was
\* logged for it, an all-zero tensor gives the zero vector, and every other
\* voxel holds its major eigenvector.
C18_NonConvergenceFallsBackToZero ==
    IsTensorConstruction =>
        \A v \in 0 .. NumVoxels - 1 :
            /\ NotConverged(v) => (StoredVector(v) = ZeroVec /\ v \in ret.stdout)
            /\ ret.tensorField[v] = ZeroTensor => StoredVector(v) = ZeroVec
            /\ (ret.tensorField[v] # ZeroTensor /\ ~NotConverged(v)) =>
                  StoredVector(v) \in {MajorAxis(ret.tensorField[v]),
                                       Scaled(0 - 1, MajorAxis(ret.tensorField[v]))}

-----------------------------------------------------------------------------
(* Claims about the integrator, the length and the frame of a trace *)

\* The loop of the direction trace is about to integrate from currentPos.
AboutToStep == InDirection /\ Dir.why = "running"

\* C21: the integration step returns pos unchanged whenever the sample at
\* pos is zero, and whenever the sample at the midpoint pos + step/2 * k1 is
\* zero.
C21_ZeroSampleGivesNoStep ==
    AboutToStep =>
        LET pos == Dir.currentPos
            step == Dir.direction * stepSize
            k1 == NormalizeSample(InterpolateVector(pos))
            mid == VecAdd(pos, Scaled(step \div 2, k1))
        IN  (InterpolateVector(pos) = ZeroVec \/ InterpolateVector(mid) = ZeroVec) =>
                Rk4Integrate(pos, step) = pos

\* The most points the length cap lets a direction accept:
\* ceil(maxLength / |stepSize|)
LengthCapCount ==
    (maxLength + stepSize * Unit - 1) \div (stepSize * Unit)

\* C22: the accumulated length grows by |stepSize| per accepted point: after
\* k accepted points it is k * |stepSize|, and a direction accepts at most
\* ceil(maxLength / |stepSize|) points.
C22_LengthIsStepSizePerPoint ==
    InDirection =>
        /\ Dir.totalLength = Len(Dir.path) * stepSize * Unit
        /\ Len(Dir.path) <= LengthCapCount

\* C23: tracing is read-only: no step of a traceStreamline call changes the
\* field's data, dimensions, flips or zero mask, or any member of the tracer.
C23_TracingWritesOnlyItsResult ==
    [][UNCHANGED <<fieldVars, cfgVars>>]_vars

\* A streamline of a backward and a forward path has been returned
C23_Witness ==
    /\ trace.pc = "returned"
    /\ trace.backwardPath # <<>> /\ trace.forwardPath # <<>>
    /\ trace.streamline[1] # trace.seed

\* C26: every zero-mask index generateSliceGridSeeds reads, for a slice its
\* range check accepts, lies inside the array calculateZeroMask allocated.
C26_SliceMaskReadsInsideArray ==
    (IsSliceCall /\ SliceArg >= 0 /\ SliceArg < dimZ) =>
        \A i \in maskReads : 0 <= i /\ i < dimX * dimY * dimZ

\* The closed box of the grid, in units
InGridBox(p) ==
    /\ 0 <= p[1] /\ p[1] <= (dimX - 1) * Unit
    /\ 0 <= p[2] /\ p[2] <= (dimY - 1) * Unit
    /\ 0 <= p[3] /\ p[3] <= (dimZ - 1) * Unit

\* C27: every point of a returned streamline, and of the paths it is built
\* from, is inside the grid: a step that leaves the grid ends the direction
\* without being recorded.
C27_StreamlinePointsInBounds ==
    /\ \A k \in 1 .. Len(trace.streamline) : InGridBox(trace.streamline[k])
    /\ \A k \in 1 .. Len(trace.forwardPath) : InGridBox(trace.forwardPath[k])
    /\ \A k \in 1 .. Len(trace.backwardPath) : InGridBox(trace.backwardPath[k])
    /\ InDirection => \A k \in 1 .. Len(Dir.path) : InGridBox(Dir.path[k])

\* A direction ended by a step that left the grid, after it recorded points
C27_Witness ==
    /\ InDirection /\ Dir.why = "bounds"
    /\ Len(Dir.path) >= 2

-----------------------------------------------------------------------------
(* Claims about the file reader *)

IsFileConstruction == ret.op = "VectorField(filename)"

\* C28: readVectorData writes each of the 3 * dimX * dimY * dimZ elements of
\* its array exactly once, component v of voxel (i, j, k) at
\* 3 * (k + dimZ * (j + dimY * i)) + v, the element getVector reads it from,
\* and writes nothing outside the array.
C28_ReaderFillsEachElementOnce ==
    IsFileConstruction =>
        LET dX == ret.dims[1]
            dY == ret.dims[2]
            dZ == ret.dims[3]
            size == 3 * dX * dY * dZ
            writes == ret.writes
        IN  /\ \A p \in 1 .. Len(writes) :
                  /\ writes[p].index \in 0 .. size - 1
                  /\ writes[p].index =
                        3 * (writes[p].k + dZ * (writes[p].j + dY * writes[p].i))
                          + writes[p].v
            /\ \A idx \in 0 .. size - 1 :
                  Cardinality({p \in 1 .. Len(writes) : writes[p].index = idx}) = 1
            /\ \A i \in 0 .. dX - 1, j \in 0 .. dY - 1, k \in 0 .. dZ - 1,
                  v \in 0 .. 2 :
                  \E p \in 1 .. Len(writes) :
                     /\ <<writes[p].i, writes[p].j, writes[p].k, writes[p].v>>
                           = <<i, j, k, v>>
                     /\ ret.outcome = "constructed" =>
                           /\ <<dimX, dimY, dimZ>> = ret.dims
                           /\ data[DataIndex(i, j, k) + v] = writes[p].value

\* A field of several voxels along each axis, dimY different from dimX and
\* from dimZ, has been constructed
C28_Witness ==
    /\ IsFileConstruction /\ ret.outcome = "constructed"
    /\ dimX # dimY /\ dimY # dimZ
    /\ dimX > 1 /\ dimY > 1 /\ dimZ > 1

-----------------------------------------------------------------------------
(* Claims about the scalar samples *)

IsScalarCall == ret.op = "sampleScalarData"

ScalarLoaded == ~app.globalScalarData.null

\* C25: sampleScalarData reads only indices inside the loaded volume,
\* 0 <= index < scalarDimX * scalarDimY * scalarDimZ, for every coordinate
\* and every volume of positive dimensions, and with no volume loaded it
\* returns 0 and reads nothing.
C25_ScalarReadsInsideVolume ==
    IsScalarCall =>
        /\ (ScalarLoaded /\ app.scalarDimX > 0 /\ app.scalarDimY > 0
                         /\ app.scalarDimZ > 0) =>
              /\ reads # {}
              /\ \A idx \in reads :
                    0 <= idx /\ idx < app.scalarDimX * app.scalarDimY * app.scalarDimZ
        /\ ~ScalarLoaded => ret.val = 0 /\ reads = {}

\* A sample beyond the last voxel of a volume with a single voxel along an
\* axis and several along another
C25_Witness ==
    /\ IsScalarCall /\ ScalarLoaded
    /\ app.scalarDimX = 1 /\ app.scalarDimZ > 1
    /\ ret.args[1] = Float(FarAway) /\ ret.args[3] = Float(FarAway)
    /\ ret.args[2] = NaN

-----------------------------------------------------------------------------
(* Claims about the application *)

Tracing == app.pc = "tracing"

\* C24: the configuration of a handler's tracer is the globals' values at
\* its construction and stays so for the whole batch, whatever UI events
\* came before: every seed is traced with it.
C24_TracerConfigurationStable ==
    Tracing =>
        /\ TracerMembers = app.tracer.made
        /\ GlobalsConfig(app) = app.tracer.made
        /\ app.used \subseteq {app.tracer.made}

\* A regenerated batch has traced all its seeds after the step-size slider
\* was moved
C24_Witness ==
    /\ Tracing /\ app.handler = "Regenerate"
    /\ app.todo = 0 /\ app.used # {}
    /\ app.stepSize = 100 /\ stepSize = 100

\* C29: the 'Regenerate Streamlines' handler takes its seeds from the
\* generator loadData takes them from, for every dataset and seeding mode.
C29_RegenerateChoosesAsLoadData ==
    (Tracing /\ app.handler = "Regenerate") =>
        app.generator = LoadDataGenerator(app, app.few)

\* C30: the global vectorField is null or points to a live VectorField, and
\* a handler's tracer points to a live one, after every sequence of UI
\* events and loads, failed ones included.
C30_FieldPointersLive ==
    /\ app.vectorField = 0 \/ app.vectorField \in app.live
    /\ app.tracer.exists => app.tracer.field \in app.live

\* A reload has deleted a loaded field and failed
C30_Witness ==
    /\ Frame /\ app.allocated >= 1
    /\ app.vectorField = 0 /\ app.live = {}

====
